---- MODULE Spec2Model ----
(***************************************************************************)
(* GRUB2 multiboot USB creator (src/main.py).                              *)
(*                                                                         *)
(* Strings of the program are modelled as sequences of one-character       *)
(* strings, so that lower-casing, substring tests, replacement, stripping  *)
(* and code-point ordering are computed the way Python computes them.      *)
(***************************************************************************)
EXTENDS Integers, Sequences, FiniteSets, TLC

(***************************************************************************)
(* Bounds of the model.                                                    *)
(***************************************************************************)
\* largest file size (bytes) of a payload file in the model
MaxSize == 2
\* largest number of payload entries given to the menu generator
MaxEntries == 2
\* largest number of synchronizations run in a row
MaxRuns == 2

(***************************************************************************)
(* Characters and strings.                                                 *)
(***************************************************************************)
\* the characters of the model's strings, by code-point range
UpperCase ==
  <<"A", "B", "C", "D", "E", "F", "G", "H", "I", "J", "K", "L", "M", "N", "O",
    "P", "Q", "R", "S", "T", "U", "V", "W", "X", "Y", "Z">>

LowerCase ==
  <<"a", "b", "c", "d", "e", "f", "g", "h", "i", "j", "k", "l", "m", "n", "o",
    "p", "q", "r", "s", "t", "u", "v", "w", "x", "y", "z">>

Digits == <<"0", "1", "2", "3", "4", "5", "6", "7", "8", "9">>

\* position of c in a sequence of distinct characters, 0 when absent
IndexIn(c, q) ==
  IF \E i \in 1..Len(q) : q[i] = c THEN CHOOSE i \in 1..Len(q) : q[i] = c ELSE 0

\* ord(c): the code point of a character
Ord(c) ==
  LET u == IndexIn(c, UpperCase)
      l == IndexIn(c, LowerCase)
      d == IndexIn(c, Digits)
  IN
  IF l > 0 THEN 96 + l
  ELSE IF u > 0 THEN 64 + u
  ELSE IF d > 0 THEN 47 + d
  ELSE CASE c = " " -> 32 [] c = "(" -> 40 [] c = ")" -> 41 [] c = "-" -> 45
         [] c = "." -> 46 [] c = "/" -> 47 [] c = "_" -> 95

\* str.lower() on one character: "A".."Z" (65..90) map to "a".."z"
LowerChar(c) ==
  LET i == IndexIn(c, UpperCase)
  IN  IF i > 0 THEN LowerCase[i] ELSE c

\* str.lower()
Lower(s) == [i \in 1..Len(s) |-> LowerChar(s[i])]

\* p in s (substring test)
Contains(s, p) ==
  \E i \in 0..(Len(s) - Len(p)) : \A j \in 1..Len(p) : s[i + j] = p[j]

\* any(x in s for x in terms)
ContainsAny(s, terms) == \E p \in terms : Contains(s, p)

\* s.endswith(p)
EndsWith(s, p) ==
  Len(s) >= Len(p) /\ SubSeq(s, Len(s) - Len(p) + 1, Len(s)) = p

\* s.replace(old, new): every non-overlapping occurrence, left to right
RECURSIVE Replace(_, _, _)
Replace(s, old, new) ==
  IF Len(s) < Len(old) THEN s
  ELSE IF SubSeq(s, 1, Len(old)) = old
       THEN new \o Replace(SubSeq(s, Len(old) + 1, Len(s)), old, new)
       ELSE <<s[1]>> \o Replace(Tail(s), old, new)

\* s.lstrip() / s.rstrip() / s.strip(): whitespace of the alphabet is " "
RECURSIVE LStrip(_)
LStrip(s) == IF s # <<>> /\ s[1] = " " THEN LStrip(Tail(s)) ELSE s

RECURSIVE RStrip(_)
RStrip(s) ==
  IF s # <<>> /\ s[Len(s)] = " " THEN RStrip(SubSeq(s, 1, Len(s) - 1)) ELSE s

Strip(s) == RStrip(LStrip(s))

\* a < b for Python str: lexicographic by code point
RECURSIVE StrLess(_, _)
StrLess(a, b) ==
  IF b = <<>> THEN FALSE
  ELSE IF a = <<>> THEN TRUE
  ELSE IF a[1] = b[1] THEN StrLess(Tail(a), Tail(b))
  ELSE Ord(a[1]) < Ord(b[1])

\* sorted(S) for a set of strings
RECURSIVE Sorted(_)
Sorted(S) ==
  IF S = {} THEN <<>>
  ELSE LET m == CHOOSE x \in S : \A y \in S \ {x} : StrLess(x, y)
       IN  <<m>> \o Sorted(S \ {m})

\* q with x put after the last element that is not greater than x
InsertSorted(q, x) ==
  LET k == Cardinality({i \in 1..Len(q) : ~StrLess(x, q[i])})
  IN  SubSeq(q, 1, k) \o <<x>> \o SubSeq(q, k + 1, Len(q))

\* a variant of SortedList that keeps the list as it is
SortedListAsIs(q) == q

\* sorted(q) for a list of strings, such as the keys of a dict in insertion
\* order: the elements of q are taken one by one and put in place
RECURSIVE SortedList(_)
SortedList(q) ==
  IF q = <<>> THEN <<>>
  ELSE InsertSorted(SortedList(SubSeq(q, 1, Len(q) - 1)), q[Len(q)])

\* the lists that hold each element of S once: the orders in which the keys
\* of a dict can have been inserted
Orders(S) ==
  {q \in [1..Cardinality(S) -> S] :
     \A i, j \in 1..Cardinality(S) : (i # j) => q[i] # q[j]}

(***************************************************************************)
(* File names used as inputs.                                              *)
(***************************************************************************)
\* "Win10_x64.iso"
N1 == <<"W", "i", "n", "1", "0", "_", "x", "6", "4", ".", "i", "s", "o">>
\* "nixos-24.iso"
N2 == <<"n", "i", "x", "o", "s", "-", "2", "4", ".", "i", "s", "o">>
\* "debian-12-netinst.iso"
N3 == <<"d", "e", "b", "i", "a", "n", "-", "1", "2", "-", "n", "e", "t", "i", "n", "s", "t", ".", "i", "s", "o">>
\* "tails-6.iso"
N4 == <<"t", "a", "i", "l", "s", "-", "6", ".", "i", "s", "o">>
\* "systemrescue.iso"
N5 == <<"s", "y", "s", "t", "e", "m", "r", "e", "s", "c", "u", "e", ".", "i", "s", "o">>
\* "ubuntu-24.04.iso"
N6 == <<"u", "b", "u", "n", "t", "u", "-", "2", "4", ".", "0", "4", ".", "i", "s", "o">>
\* "archlinux-2024.iso"
N7 == <<"a", "r", "c", "h", "l", "i", "n", "u", "x", "-", "2", "0", "2", "4", ".", "i", "s", "o">>
\* "Fedora-40.iso"
N8 == <<"F", "e", "d", "o", "r", "a", "-", "4", "0", ".", "i", "s", "o">>
\* "memtest.iso"
N9 == <<"m", "e", "m", "t", "e", "s", "t", ".", "i", "s", "o">>
\* "opensuse.iso"
N10 == <<"o", "p", "e", "n", "s", "u", "s", "e", ".", "i", "s", "o">>
\* "gandalf-nixos.iso"
N11 == <<"g", "a", "n", "d", "a", "l", "f", "-", "n", "i", "x", "o", "s", ".", "i", "s", "o">>
\* "nixos-debian-netinst.iso"
N12 == <<"n", "i", "x", "o", "s", "-", "d", "e", "b", "i", "a", "n", "-", "n", "e", "t", "i", "n", "s", "t", ".", "i", "s", "o">>
\* "tails-netinst-debian.iso"
N13 == <<"t", "a", "i", "l", "s", "-", "n", "e", "t", "i", "n", "s", "t", "-", "d", "e", "b", "i", "a", "n", ".", "i", "s", "o">>
\* "sysresccd-tails.iso"
N14 == <<"s", "y", "s", "r", "e", "s", "c", "c", "d", "-", "t", "a", "i", "l", "s", ".", "i", "s", "o">>
\* "clonezilla-systemrescue.iso"
N15 == <<"c", "l", "o", "n", "e", "z", "i", "l", "l", "a", "-", "s", "y", "s", "t", "e", "m", "r", "e", "s", "c", "u", "e", ".", "i", "s", "o">>
\* "manjaro-kali.iso"
N16 == <<"m", "a", "n", "j", "a", "r", "o", "-", "k", "a", "l", "i", ".", "i", "s", "o">>
\* "rocky-arch.iso"
N17 == <<"r", "o", "c", "k", "y", "-", "a", "r", "c", "h", ".", "i", "s", "o">>
\* "HBCD_PE_x64.iso"
N18 == <<"H", "B", "C", "D", "_", "P", "E", "_", "x", "6", "4", ".", "i", "s", "o">>
\* "_live_.iso"
N19 == <<"_", "l", "i", "v", "e", "_", ".", "i", "s", "o">>
\* "old": a subdirectory of the payload folder
NOld == <<"o", "l", "d">>

\* "notes.txt": not a payload file
NTxt == <<"n", "o", "t", "e", "s", ".", "t", "x", "t">>

\* the payload names given to the menu generator
MenuNames ==
  {N1, N2, N3, N4, N5, N6, N7, N8, N9, N10, N11, N12, N13, N14, N15, N16, N17, N18, N19}

(***************************************************************************)
(* generate_grub_config: family rules, in the order of the source.         *)
(***************************************************************************)
\* 1. Windows / WinPE / Hiren / Gandalf
WindowsTerms ==
  { <<"h", "i", "r", "e", "n">>, <<"h", "b", "c", "d">>,
    <<"g", "a", "n", "d", "a", "l", "f">>, <<"w", "i", "n", "1", "0">>,
    <<"w", "i", "n", "1", "1">>, <<"w", "i", "n", "d", "o", "w", "s">>,
    <<"w", "i", "n", "p", "e">>, <<"p", "e", "_", "x", "6", "4">> }

IsWindows(low) == ContainsAny(low, WindowsTerms)

\* 2. NixOS
IsNixos(low) == Contains(low, <<"n", "i", "x", "o", "s">>)

\* 3. Debian installer (netinst)
IsDebianNetinst(low) ==
  /\ Contains(low, <<"d", "e", "b", "i", "a", "n">>)
  /\ Contains(low, <<"n", "e", "t", "i", "n", "s", "t">>)

\* 4. Tails
IsTails(low) == Contains(low, <<"t", "a", "i", "l", "s">>)

\* 5. SystemRescue
IsSystemRescue(low) ==
  \/ Contains(low, <<"s", "y", "s", "t", "e", "m", "r", "e", "s", "c", "u", "e">>)
  \/ Contains(low, <<"s", "y", "s", "r", "e", "s", "c", "c", "d">>)

\* 6. Debian-live family
DebianLiveTerms ==
  { <<"c", "l", "o", "n", "e", "z", "i", "l", "l", "a">>,
    <<"g", "p", "a", "r", "t", "e", "d">>, <<"d", "e", "b", "i", "a", "n">>,
    <<"k", "a", "l", "i">>, <<"u", "b", "u", "n", "t", "u">>, <<"p", "o", "p">>,
    <<"m", "i", "n", "t">> }

IsDebianLive(low) == ContainsAny(low, DebianLiveTerms)

\* 7. Arch family
ArchTerms ==
  { <<"a", "r", "c", "h">>, <<"m", "a", "n", "j", "a", "r", "o">>,
    <<"e", "n", "d", "e", "a", "v", "o", "u", "r", "o", "s">>,
    <<"e", "n", "d", "e", "a", "v", "o", "u", "r">> }

IsArch(low) == ContainsAny(low, ArchTerms)

\* 8. Fedora/RHEL
FedoraTerms ==
  { <<"f", "e", "d", "o", "r", "a">>, <<"r", "h", "e", "l">>,
    <<"c", "e", "n", "t", "o", "s">>, <<"r", "o", "c", "k", "y">>,
    <<"a", "l", "m", "a">> }

IsFedora(low) == ContainsAny(low, FedoraTerms)

\* extra kernel parameters of the Debian-live template
ClonezillaExtra(low) ==
  IF Contains(low, <<"c", "l", "o", "n", "e", "z", "i", "l", "l", "a">>)
  THEN "union=overlay components quiet noswap" ELSE ""

\* _menuentry(label, body): one menuentry block of the document
MenuEntry(label, body) == [kind |-> "menuentry", label |-> label, body |-> body]

\* a template body instantiated for a payload file
Body(template, isofile, extra) ==
  [template |-> template, isofile |-> isofile, extra |-> extra]

\* label = iso_name.replace(".iso", "").replace("_", " ").strip()
LabelOf(iso_name) ==
  Strip(Replace(Replace(iso_name, <<".", "i", "s", "o">>, <<>>), <<"_">>, <<" ">>))

\* isofile = f"/isos/{iso_name}"
IsoFile(iso_name) == <<"/", "i", "s", "o", "s", "/">> \o iso_name

WindowsSuffix == <<" ", "(", "W", "i", "n", "d", "o", "w", "s", "/", "P", "E", ")">>

\* a variant of IsoBlock that tests the Debian-live family before the more
\* specific rules and the Arch family after the Fedora family
IsoBlockReordered(iso_name) ==
  LET label == LabelOf(iso_name)
      isofile == IsoFile(iso_name)
      low == Lower(iso_name)
  IN  IF IsDebianLive(low)
        THEN MenuEntry(label, Body("debian_live", isofile, ClonezillaExtra(low)))
      ELSE IF IsWindows(low)
        THEN MenuEntry(label \o WindowsSuffix, Body("windows", isofile, ""))
      ELSE IF IsNixos(low) THEN MenuEntry(label, Body("nixos", isofile, ""))
      ELSE IF IsDebianNetinst(low)
        THEN MenuEntry(label, Body("debian_netinst", isofile, ""))
      ELSE IF IsTails(low) THEN MenuEntry(label, Body("tails", isofile, ""))
      ELSE IF IsSystemRescue(low)
        THEN MenuEntry(label, Body("systemrescue", isofile, ""))
      ELSE IF IsFedora(low) THEN MenuEntry(label, Body("fedora", isofile, ""))
      ELSE IF IsArch(low) THEN MenuEntry(label, Body("arch", isofile, ""))
      ELSE MenuEntry(label, Body("generic", isofile, ""))

\* the body of the loop over sorted(isos.keys()): the block of one payload
IsoBlock(iso_name) ==
  LET label == LabelOf(iso_name)
      isofile == IsoFile(iso_name)
      low == Lower(iso_name)
  IN  IF IsWindows(low)
        THEN MenuEntry(label \o WindowsSuffix, Body("windows", isofile, ""))
      ELSE IF IsNixos(low) THEN MenuEntry(label, Body("nixos", isofile, ""))
      ELSE IF IsDebianNetinst(low)
        THEN MenuEntry(label, Body("debian_netinst", isofile, ""))
      ELSE IF IsTails(low) THEN MenuEntry(label, Body("tails", isofile, ""))
      ELSE IF IsSystemRescue(low)
        THEN MenuEntry(label, Body("systemrescue", isofile, ""))
      ELSE IF IsDebianLive(low)
        THEN MenuEntry(label, Body("debian_live", isofile, ClonezillaExtra(low)))
      ELSE IF IsArch(low) THEN MenuEntry(label, Body("arch", isofile, ""))
      ELSE IF IsFedora(low) THEN MenuEntry(label, Body("fedora", isofile, ""))
      ELSE MenuEntry(label, Body("generic", isofile, ""))

\* the fixed text before the entries ("# GRUB2 Multiboot Configuration" ...)
Preamble == [kind |-> "preamble"]

\* the fixed text after the entries ("### Utilities ###" ...)
Utilities == [kind |-> "utilities"]

\* has_windows: the trigger of ensure_wimboot
HasWindowsTerms ==
  { <<"w", "i", "n">>, <<"h", "i", "r", "e", "n">>, <<"h", "b", "c", "d">>,
    <<"p", "e">>, <<"g", "a", "n", "d", "a", "l", "f">> }

has_windows(isos) ==
  \E x \in DOMAIN isos : x # <<>> /\ ContainsAny(Lower(x), HasWindowsTerms)

\* a variant of ConfigText that emits the entries in descending name order
ConfigTextUnsorted(keys) ==
  LET order == SortedList(keys)
  IN  <<Preamble>>
        \o [i \in 1..Len(order) |-> IsoBlock(order[Len(order) + 1 - i])]
        \o <<Utilities>>

\* the text generate_grub_config returns, as its sequence of blocks; keys is
\* isos.keys(), in insertion order
ConfigText(keys) ==
  LET order == SortedList(keys)
  IN  <<Preamble>> \o [i \in 1..Len(order) |-> IsoBlock(order[i])] \o <<Utilities>>

(***************************************************************************)
(* The payload store and sync_isos.                                        *)
(***************************************************************************)
\* 1024 ** 3
GiB == 1073741824

\* file contents that differ while the size is the same
Contents == {"A", "B"}

\* a regular file: its st_size and its content
File(size, data) == [size |-> size, data |-> data]

NoFiles == [n \in {} |-> File(0, "A")]

\* an empty subdirectory, as an entry of its parent; its name is no payload
\* name, so glob("*.iso") and the copy loop never meet it
Dir == [size |-> 0, data |-> "dir"]

\* p.is_dir()
is_dir(entry) == entry.data = "dir"

\* a directory that does not exist
NoDir == [exists |-> FALSE, files |-> NoFiles]

\* d with entry k set to v (dict assignment, file creation or overwrite)
Put(d, k, v) == [x \in (DOMAIN d) \cup {k} |-> IF x = k THEN v ELSE d[x]]

\* st_size / (1024 ** 3): the exact quotient, kept as numerator and denominator
SizeGB(st_size) == [num |-> st_size, den |-> GiB]

\* glob("*.iso"): the names of a directory that end in ".iso", sorted
IsoGlob(files) ==
  Sorted({n \in DOMAIN files : EndsWith(n, <<".", "i", "s", "o">>)})


\* a variant of scan_existing_isos that finds no payload on the device
ScanNothing(iso_folder) == NoFiles

\* scan_existing_isos: the *.iso files under <iso_mount>/isos with their sizes
scan_existing_isos(iso_folder) ==
  IF ~iso_folder.exists THEN NoFiles
  ELSE LET names == IsoGlob(iso_folder.files)
       IN  [n \in {names[i] : i \in 1..Len(names)} |->
              SizeGB(iso_folder.files[n].size)]

\* a variant of NeedsCopy that compares the content instead of the size
NeedsCopyByContent(files, name, src) ==
  ~(name \in DOMAIN files /\ files[name].data = src.data)

\* a variant of NeedsCopy that copies every source file
NeedsCopyAlways(files, name, src) == TRUE

\* not (dst.exists() and dst.stat().st_size == src.stat().st_size)
NeedsCopy(files, name, src) ==
  ~(name \in DOMAIN files /\ files[name].size = src.size)

\* one pass of the loop over src_files of sync_isos. st holds the files of
\* the destination folder, the isos dict, the names copied so far, the lines
\* printed in preview mode and the name whose copy raised (<<>> when none
\* did); fail_copy gives, for each name for which shutil.copy2 raises, the
\* number of bytes it wrote to the destination before it raised, -1 when it
\* raised before it opened the destination. A destination that was opened
\* is left with the bytes written, an earlier file of the name being gone.
SyncOne(st, name, src, dry_run, fail_copy) ==
  LET size_gb == SizeGB(src.size)
  IN  IF dry_run
      THEN [st EXCEPT !.isos = Put(st.isos, name, size_gb),
                      !.echo = Append(st.echo, name)]
      ELSE IF ~NeedsCopy(st.files, name, src)
      THEN [st EXCEPT !.isos = Put(st.isos, name, size_gb)]
      ELSE IF name \in DOMAIN fail_copy
      THEN [st EXCEPT !.raised = name,
                      !.files = IF fail_copy[name] < 0 THEN @
                                ELSE Put(@, name, File(fail_copy[name], src.data))]
      ELSE [st EXCEPT !.files = Put(st.files, name, src),
                      !.copied = Append(st.copied, name),
                      !.isos = Put(st.isos, name, size_gb)]

\* the loop over src_files, from index i on; an exception ends it
RECURSIVE SyncLoop(_, _, _, _, _, _)
SyncLoop(src_files, i, st, src, dry_run, fail_copy) ==
  IF i > Len(src_files) \/ st.raised # <<>> THEN st
  ELSE SyncLoop(src_files, i + 1,
                SyncOne(st, src_files[i], src[src_files[i]], dry_run, fail_copy),
                src, dry_run, fail_copy)

\* one external command or file-system operation, with its argument
Op(op, arg) == [op |-> op, arg |-> arg]

\* path.rglob("*"): the entries of the folder in the order the directory
\* lists them, which is any order
Rglob(files) == Orders(DOMAIN files)

\* the commands _apply_iso_permissions runs on the payload folder; listing
\* is what path.rglob("*") yields, read under "sudo-user" only, and files
\* the entries of the folder: a directory gets 755, a file 644
PermCmds(iso_perms, listing, files) ==
  IF iso_perms = "root" THEN <<>>
  ELSE IF iso_perms = "world-writable" THEN <<Op("chmod_R_a+rwX", <<>>)>>
  ELSE <<Op("chown_R", <<>>), Op("chmod_755", <<>>)>>
         \o [i \in 1..Len(listing) |->
               IF is_dir(files[listing[i]]) THEN Op("chmod_755", listing[i])
               ELSE Op("chmod_644", listing[i])]

\* iso_folder.mkdir(exist_ok=True), skipped in preview mode
MkdirFolder(iso_folder, dry_run) ==
  IF dry_run THEN iso_folder ELSE [exists |-> TRUE, files |-> iso_folder.files]

\* isos = self.scan_existing_isos(): the state the copy loop starts from
SyncStart(folder) ==
  [exists |-> folder.exists, files |-> folder.files,
   isos |-> scan_existing_isos(folder), copied |-> <<>>, echo |-> <<>>,
   raised |-> <<>>]

\* src_files = sorted(iso_dir.glob("*.iso")), empty without a source directory
SrcFiles(iso_dir) == IF iso_dir.given THEN IsoGlob(iso_dir.files) ELSE <<>>

\* sync_isos up to the permission step: iso_folder is what is visible at
\* <iso_mount>/isos, iso_dir the source directory ([given, files]).
\* Returns the folder afterwards (exists, files), the isos dict, the names
\* copied, the preview lines and the name whose copy raised.
sync_isos(iso_folder, iso_dir, dry_run, fail_copy) ==
  SyncLoop(SrcFiles(iso_dir), 1, SyncStart(MkdirFolder(iso_folder, dry_run)),
           iso_dir.files, dry_run, fail_copy)

(***************************************************************************)
(* State of one run of main() and of the device it works on.               *)
(***************************************************************************)
VARIABLES
  args,       \* the parsed command line
  pc,         \* the position of main()
  disk,       \* the selected device: "absent", "blank", "partitioned", "formatted"
  already,    \* formatter.device_has_layout()
  mode,       \* the resolved mode: "unset", "wipe", "update"
  iso_dir,    \* whether main() holds a source directory (iso_dir is not None)
  mounted,    \* _is_mounted of the boot and the iso mount point
  usb,        \* the folder <iso partition>/isos
  boot,       \* the boot partition: grub directory, wimboot, grub.cfg
  source,     \* the files of the source directory
  isos,       \* the dict sync_isos returned
  cfg,        \* the text generate_grub_config returned
  executed,   \* external commands run and file-system changes made, in order
  echoed,     \* lines printed for commands and previewed actions, in order
  steps,      \* the operations main() has called, in order
  asked,      \* the questions put to the human, with the answers typed
  exc,        \* the exception in flight, or the one that ended the run
  first_exc,  \* the exception that left the body of the try statement
  status,     \* the exit status of the process, -1 while it runs
  history     \* one record per sync_isos call

vars ==
  <<args, pc, disk, already, mode, iso_dir, mounted, usb, boot,
    source, isos, cfg, executed, echoed, steps, asked, exc, first_exc, status,
    history>>

\* the command line: --mode, --auto-confirm, --dry-run / --no-dry-run,
\* --iso-dir (absent, an existing directory, a missing one), --device
Args ==
  [mode : {"auto", "wipe", "update"},
   auto_confirm : BOOLEAN,
   dry_run : BOOLEAN,
   iso_dir : {"none", "exists", "missing"},
   device : {"given", "prompt"},
   download_wimboot : {"unread"},
   iso_perms : {"unread"}]

\* --iso-perms and --download-wimboot: the value of each is drawn when the
\* run first uses it, a run that ends before being the same run for all
IsoPerms == {"sudo-user", "root", "world-writable"}

DownloadWimboot == {"on", "off"}

\* typed answers, before .strip().lower()
\* "w", " W", "u", ""
ModeAnswers == { <<"w">>, <<" ", "W">>, <<"u">>, <<>> }

\* "yes", " YES ", "y", ""
ConfirmAnswers == { <<"y", "e", "s">>, <<" ", "Y", "E", "S", " ">>, <<"y">>, <<>> }

Yes == <<"y", "e", "s">>

NoExc == [type |-> "none", code |-> 0, at |-> ""]

\* sys.exit(code) raised in operation at
SystemExit(code, at) == [type |-> "SystemExit", code |-> code, at |-> at]

\* subprocess.CalledProcessError raised by _run for command at
CalledProcessError(at) == [type |-> "CalledProcessError", code |-> 1, at |-> at]

\* OSError raised by shutil.copy2
CopyError(at) == [type |-> "OSError", code |-> 1, at |-> at]

\* the exit status of the interpreter for the exception that ends the run
ExitStatus(e) ==
  IF e.type = "none" THEN 0 ELSE IF e.type = "SystemExit" THEN e.code ELSE 1

\* the boot partition right after mkfs
EmptyBoot == [grub_dir |-> FALSE, wimboot |-> FALSE, grub_installed |-> FALSE,
              has_cfg |-> FALSE, grub_cfg |-> <<>>]

\* what is seen under <mount_point>/iso/isos and <mount_point>/boot
VisibleIsoFolder == IF mounted.iso THEN usb ELSE NoDir

VisibleBoot == IF mounted.boot THEN boot ELSE EmptyBoot

(***************************************************************************)
(* _run: a sequence of commands, run one after the other until one fails.  *)
(***************************************************************************)
AllOk == [at |-> 0, kind |-> "ok"]

\* the program a command runs
Program(op) ==
  CASE op \in {"parted_mklabel", "parted_mkpart", "parted_set_boot"} -> "parted"
    [] op \in {"chmod_R_a+rwX", "chmod_755", "chmod_644"} -> "chmod"
    [] OTHER -> op

\* how a sequence of _run calls can go: all succeed, or the at-th exits
\* non-zero ("failed") or its program is missing ("notfound"); a program
\* that ran earlier in the sequence is not missing
Outcomes(cmds, dry_run) ==
  IF dry_run THEN {AllOk}
  ELSE {AllOk}
       \cup {[at |-> k, kind |-> "failed"] : k \in 1..Len(cmds)}
       \cup {[at |-> k, kind |-> "notfound"] :
               k \in {j \in 1..Len(cmds) :
                        \A i \in 1..(j - 1) :
                          Program(cmds[i].op) # Program(cmds[j].op)}}

\* the number of commands of cmds that succeed under outcome out
Succeeded(cmds, dry_run, out) ==
  IF dry_run THEN 0 ELSE IF out.at = 0 THEN Len(cmds) ELSE out.at - 1

\* a variant of RunExc in which _run swallows a non-zero exit status
RunExcSwallow(cmds, dry_run, out) ==
  IF dry_run \/ out.at = 0 \/ out.kind = "failed" THEN NoExc
  ELSE SystemExit(1, cmds[out.at].op)

\* a variant of RunExc in which a missing program ends the run with status 0
RunExcExitZero(cmds, dry_run, out) ==
  IF dry_run \/ out.at = 0 THEN NoExc
  ELSE IF out.kind = "failed" THEN CalledProcessError(cmds[out.at].op)
  ELSE SystemExit(0, cmds[out.at].op)

\* the exception _run raises under outcome out
RunExc(cmds, dry_run, out) ==
  IF dry_run \/ out.at = 0 THEN NoExc
  ELSE IF out.kind = "failed" THEN CalledProcessError(cmds[out.at].op)
  ELSE SystemExit(1, cmds[out.at].op)

\* the processes started: the commands that succeeded and one that exited
\* non-zero; in preview mode none
RunExecuted(cmds, dry_run, out) ==
  IF dry_run THEN <<>>
  ELSE IF out.at = 0 THEN cmds
  ELSE IF out.kind = "failed" THEN SubSeq(cmds, 1, out.at)
  ELSE SubSeq(cmds, 1, out.at - 1)

\* the command lines _run prints: every command reached
RunEchoed(cmds, dry_run, out) ==
  IF dry_run \/ out.at = 0 THEN cmds ELSE SubSeq(cmds, 1, out.at)

(***************************************************************************)
(* main(): from argument parsing to the try statement.                     *)
(***************************************************************************)
\* sys.exit(code) outside the try statement: the process ends at once
ExitNow(code, at) ==
  /\ pc' = "done"
  /\ exc' = SystemExit(code, at)
  /\ status' = code

\* if not args.dry_run and os.geteuid() != 0: sys.exit(1)
CheckRoot ==
  /\ pc = "start"
  /\ \E is_root \in BOOLEAN :
       IF ~args.dry_run /\ ~is_root
       THEN ExitNow(1, "root")
       ELSE pc' = "iso_dir" /\ UNCHANGED <<exc, status>>
  /\ UNCHANGED <<args, disk, already, mode, iso_dir, mounted, usb, boot, source,
                 isos, cfg, executed, echoed, steps, asked, first_exc, history>>

\* --- 1. ISO Directory ---
CheckIsoDir ==
  /\ pc = "iso_dir"
  /\ IF args.iso_dir = "missing"
     THEN ExitNow(1, "iso_dir") /\ UNCHANGED iso_dir
     ELSE /\ pc' = "device"
          /\ iso_dir' = (args.iso_dir = "exists")
          /\ UNCHANGED <<exc, status>>
  /\ UNCHANGED <<args, disk, already, mode, mounted, usb, boot, source, isos,
                 cfg, executed, echoed, steps, asked, first_exc, history>>

\* --- 2. Device Selection ---: --device is taken as given; otherwise the
\* disks are listed and the human picks one
SelectDevice ==
  /\ pc = "device"
  /\ IF args.device = "given"
     THEN pc' = "probe" /\ UNCHANGED <<exc, status, asked>>
     ELSE \E r \in {"lsblk_failed", "no_devices", "invalid", "selected"} :
            /\ (r = "selected") => disk # "absent"
            /\ IF r = "selected"
               THEN /\ pc' = "probe"
                    /\ asked' = Append(asked, [q |-> "device", a |-> <<"1">>])
                    /\ UNCHANGED <<exc, status>>
               ELSE /\ ExitNow(1, r)
                    /\ asked' = IF r = "invalid"
                                THEN Append(asked, [q |-> "device", a |-> <<"x">>])
                                ELSE asked
  /\ UNCHANGED <<args, disk, already, mode, iso_dir, mounted, usb, boot, source,
                 isos, cfg, executed, echoed, steps, first_exc, history>>

\* USBFormatter.device_has_layout: both partition nodes exist
device_has_layout == disk \in {"partitioned", "formatted"}

ProbeLayout ==
  /\ pc = "probe"
  /\ already' = device_has_layout
  /\ pc' = "resolve"
  /\ UNCHANGED <<args, disk, mode, iso_dir, mounted, usb, boot, source, isos,
                 cfg, executed, echoed, steps, asked, exc, first_exc, status,
                 history>>

\* a variant of ResolvedMode in which automation wipes a provisioned device
ResolvedModeAutoWipe(preference, has_layout, auto_confirm, ans) ==
  IF preference = "auto"
  THEN IF has_layout
       THEN IF auto_confirm THEN "wipe"
            ELSE IF Lower(Strip(ans)) = <<"w">> THEN "wipe" ELSE "update"
       ELSE "wipe"
  ELSE preference

\* a variant of ResolvedMode in which a provisioned device overrides an
\* explicit wipe
ResolvedModeKeep(preference, has_layout, auto_confirm, ans) ==
  IF preference = "auto" \/ (preference = "wipe" /\ has_layout)
  THEN IF has_layout
       THEN IF auto_confirm THEN "update"
            ELSE IF Lower(Strip(ans)) = <<"w">> THEN "wipe" ELSE "update"
       ELSE "wipe"
  ELSE preference

\* --- Mode Resolution ---: ans is what the human types at "Select mode [u/w]"
ResolvedMode(preference, has_layout, auto_confirm, ans) ==
  IF preference = "auto"
  THEN IF has_layout
       THEN IF auto_confirm THEN "update"
            ELSE IF Lower(Strip(ans)) = <<"w">> THEN "wipe" ELSE "update"
       ELSE "wipe"
  ELSE preference

\* whether mode resolution prompts the human
ModePrompted == args.mode = "auto" /\ already /\ ~args.auto_confirm

ResolveMode ==
  /\ pc = "resolve"
  /\ \E ans \in (IF ModePrompted THEN ModeAnswers ELSE {<<>>}) :
       /\ mode' = ResolvedMode(args.mode, already, args.auto_confirm, ans)
       /\ asked' = IF ModePrompted
                   THEN Append(asked, [q |-> "mode", a |-> ans]) ELSE asked
  /\ pc' = "iso_prompt"
  /\ UNCHANGED <<args, disk, already, iso_dir, mounted, usb, boot, source, isos,
                 cfg, executed, echoed, steps, exc, first_exc, status, history>>

\* --- ISO Dir Prompt ---: p is "" (skip), a directory, or an invalid path
IsoDirPrompt ==
  /\ pc = "iso_prompt"
  /\ IF args.iso_dir = "none" /\ ~args.auto_confirm /\ ~args.dry_run
     THEN \E p \in {"", "dir", "invalid"} :
            /\ iso_dir' = (p = "dir")
            /\ asked' = Append(asked, [q |-> "iso_dir", a |-> <<p>>])
     ELSE UNCHANGED <<iso_dir, asked>>
  /\ pc' = "banner"
  /\ UNCHANGED <<args, disk, already, mode, mounted, usb, boot, source, isos,
                 cfg, executed, echoed, steps, exc, first_exc, status, history>>

\* a variant of FirstStep in which the wipe branch never asks
FirstStepSkipConfirm ==
  IF mode = "wipe" THEN "wipe_device" ELSE "mount_partitions"

\* the first operation of the try statement
FirstStep ==
  IF mode = "wipe"
  THEN IF ~args.auto_confirm THEN "confirm_wipe" ELSE "wipe_device"
  ELSE "mount_partitions"

\* the summary, "Press Enter to continue (dry-run)...", the per-device mount
\* point and the construction of GRUBInstaller
Banner ==
  /\ pc = "banner"
  /\ asked' = IF args.dry_run /\ ~args.auto_confirm
              THEN Append(asked, [q |-> "enter", a |-> <<>>]) ELSE asked
  /\ pc' = FirstStep
  /\ UNCHANGED <<args, disk, already, mode, iso_dir, mounted, usb, boot, source,
                 isos, cfg, executed, echoed, steps, exc, first_exc, status,
                 history>>

(***************************************************************************)
(* main(): the try statement.                                              *)
(***************************************************************************)
\* a variant of NextStep in which the update branch generates the menu right
\* after mounting and synchronizes afterwards
NextStepMenuFirst(step) ==
  IF mode = "wipe"
  THEN CASE step = "confirm_wipe" -> "wipe_device"
         [] step = "wipe_device" -> "create_partitions"
         [] step = "create_partitions" -> "format_partitions"
         [] step = "format_partitions" -> "mount_partitions"
         [] step = "mount_partitions" -> "install_grub"
         [] step = "install_grub" -> "sync_isos"
         [] step = "sync_isos" -> "generate_grub_config"
         [] step = "generate_grub_config" -> "write_grub_config"
         [] step = "write_grub_config" -> "finally"
  ELSE CASE step = "mount_partitions" -> "generate_grub_config"
         [] step = "generate_grub_config" -> "sync_isos"
         [] step = "sync_isos" -> "write_grub_config"
         [] step = "write_grub_config" -> "install_grub"
         [] step = "install_grub" -> "finally"

\* the statement after operation step in the wipe branch and in the update
\* branch of the try statement
NextStep(step) ==
  IF mode = "wipe"
  THEN CASE step = "confirm_wipe" -> "wipe_device"
         [] step = "wipe_device" -> "create_partitions"
         [] step = "create_partitions" -> "format_partitions"
         [] step = "format_partitions" -> "mount_partitions"
         [] step = "mount_partitions" -> "install_grub"
         [] step = "install_grub" -> "sync_isos"
         [] step = "sync_isos" -> "generate_grub_config"
         [] step = "generate_grub_config" -> "write_grub_config"
         [] step = "write_grub_config" -> "finally"
  ELSE CASE step = "mount_partitions" -> "sync_isos"
         [] step = "sync_isos" -> "generate_grub_config"
         [] step = "generate_grub_config" -> "write_grub_config"
         [] step = "write_grub_config" -> "install_grub"
         [] step = "install_grub" -> "finally"

\* operation step was called and ended with exception e (NoExc: it returned):
\* an exception leaves the try statement for its finally clause
Leave(step, e) ==
  /\ steps' = Append(steps, step)
  /\ pc' = IF e.type = "none" THEN NextStep(step) ELSE "finally"
  /\ exc' = e
  /\ first_exc' = e

\* USBFormatter.confirm_wipe
confirm_wipe ==
  /\ pc = "confirm_wipe"
  /\ \E r \in {"lsblk_failed", "listed"} :
       IF r = "lsblk_failed"
       THEN Leave("confirm_wipe", SystemExit(1, "lsblk")) /\ UNCHANGED asked
       ELSE IF disk = "absent"
       THEN Leave("confirm_wipe", SystemExit(1, "device_not_found"))
            /\ UNCHANGED asked
       ELSE \E response \in ConfirmAnswers :
              /\ asked' = Append(asked, [q |-> "wipe", a |-> response])
              /\ IF Lower(Strip(response)) # Yes
                 THEN Leave("confirm_wipe", SystemExit(0, "aborted"))
                 ELSE Leave("confirm_wipe", NoExc)
  /\ UNCHANGED <<args, disk, already, mode, iso_dir, mounted, usb, boot, source,
                 isos, cfg, executed, echoed, status, history>>

NoneMounted == [boot |-> FALSE, iso |-> FALSE]

\* what "umount <device>*" can leave mounted: each mounted partition is
\* released or, when it is busy, stays mounted; nothing is run in preview mode
UmountAll(dry_run) ==
  IF dry_run THEN {mounted}
  ELSE {[boot |-> b, iso |-> i] :
          b \in {mounted.boot, FALSE}, i \in {mounted.iso, FALSE}}

\* USBFormatter.wipe_device: "umount <device>*" through the shell, its result
\* ignored, then wipefs -a. wipefs refuses a device that is still in use and
\* fails on a device that does not exist.
wipe_device ==
  /\ pc = "wipe_device"
  /\ LET cmds == <<Op("wipefs", <<>>)>>
     IN  \E now \in UmountAll(args.dry_run), out \in Outcomes(cmds, args.dry_run) :
           LET done == Succeeded(cmds, args.dry_run, out)
           IN  /\ (~args.dry_run /\ (now # NoneMounted \/ disk = "absent"))
                    => out.at = 1
               /\ mounted' = now
               /\ executed' = executed
                    \o (IF args.dry_run THEN <<>> ELSE <<Op("umount_all", <<>>)>>)
                    \o RunExecuted(cmds, args.dry_run, out)
               /\ echoed' = echoed \o RunEchoed(cmds, args.dry_run, out)
               /\ disk' = IF done = 1 THEN "blank" ELSE disk
               /\ usb' = IF done = 1 THEN NoDir ELSE usb
               /\ boot' = IF done = 1 THEN EmptyBoot ELSE boot
               /\ Leave("wipe_device", RunExc(cmds, args.dry_run, out))
  /\ UNCHANGED <<args, already, mode, iso_dir, source, isos, cfg, asked, status,
                 history>>

\* USBFormatter.create_partitions
create_partitions ==
  /\ pc = "create_partitions"
  /\ LET cmds == <<Op("parted_mklabel", <<>>), Op("parted_mkpart", <<"1">>),
                   Op("parted_set_boot", <<>>), Op("parted_mkpart", <<"2">>)>>
     IN  \E out \in Outcomes(cmds, args.dry_run) :
           /\ executed' = executed \o RunExecuted(cmds, args.dry_run, out)
           /\ echoed' = echoed \o RunEchoed(cmds, args.dry_run, out)
           /\ disk' = IF Succeeded(cmds, args.dry_run, out) = Len(cmds)
                      THEN "partitioned" ELSE disk
           /\ Leave("create_partitions", RunExc(cmds, args.dry_run, out))
  /\ UNCHANGED <<args, already, mode, iso_dir, mounted, usb, boot, source, isos,
                 cfg, asked, status, history>>

\* USBFormatter.format_partitions
format_partitions ==
  /\ pc = "format_partitions"
  /\ LET cmds == <<Op("mkfs_boot", <<>>), Op("mkfs_iso", <<>>)>>
     IN  \E out \in Outcomes(cmds, args.dry_run) :
           LET done == Succeeded(cmds, args.dry_run, out)
           IN  /\ executed' = executed \o RunExecuted(cmds, args.dry_run, out)
               /\ echoed' = echoed \o RunEchoed(cmds, args.dry_run, out)
               /\ disk' = IF done = Len(cmds) THEN "formatted" ELSE disk
               /\ boot' = IF done >= 1 THEN EmptyBoot ELSE boot
               /\ usb' = IF done = Len(cmds) THEN NoDir ELSE usb
               /\ Leave("format_partitions", RunExc(cmds, args.dry_run, out))
  /\ UNCHANGED <<args, already, mode, iso_dir, mounted, source, isos, cfg,
                 asked, status, history>>

\* whether the program "mountpoint" may be installed: _is_mounted is not
\* called in preview mode
MountpointInstalled == IF args.dry_run THEN {TRUE} ELSE BOOLEAN

\* _is_mounted(path): the answer of "mountpoint -q", False when the program
\* is not installed
_is_mounted(m, installed) == installed /\ mounted[m]

\* the mount commands of mount_partitions: the boot partition first
MountCmds(installed) ==
  (IF _is_mounted("boot", installed) THEN <<>>
   ELSE <<Op("mount", <<"b", "o", "o", "t">>)>>)
    \o (IF _is_mounted("iso", installed) THEN <<>>
        ELSE <<Op("mount", <<"i", "s", "o">>)>>)

\* GRUBInstaller.mount_partitions: the mount point directories are made,
\* then each partition that _is_mounted does not report is mounted. mount
\* fails on a device without the two file systems.
mount_partitions ==
  /\ pc = "mount_partitions"
  /\ \E installed \in MountpointInstalled :
     LET cmds == MountCmds(installed)
         mkdirs == <<Op("mkdir", <<"m", "o", "u", "n", "t", "_", "p", "o", "i", "n", "t">>),
                     Op("mkdir", <<"b", "o", "o", "t", "_", "m", "o", "u", "n", "t">>),
                     Op("mkdir", <<"i", "s", "o", "_", "m", "o", "u", "n", "t">>)>>
         prints == <<Op("print_mount", <<"b", "o", "o", "t">>),
                     Op("print_mount", <<"i", "s", "o">>)>>
     IN  \E out \in Outcomes(cmds, args.dry_run) :
           LET done == Succeeded(cmds, args.dry_run, out)
           IN  /\ (~args.dry_run /\ disk # "formatted" /\ cmds # <<>>) => out.at = 1
               /\ executed' = executed
                    \o (IF args.dry_run THEN <<>> ELSE mkdirs)
                    \o RunExecuted(cmds, args.dry_run, out)
               /\ echoed' = echoed
                    \o (IF args.dry_run THEN prints
                        ELSE RunEchoed(cmds, args.dry_run, out))
               /\ mounted' =
                    IF args.dry_run THEN mounted
                    ELSE [m \in {"boot", "iso"} |->
                            \/ mounted[m]
                            \/ \E i \in 1..done :
                                 cmds[i].arg = (IF m = "boot"
                                                THEN <<"b", "o", "o", "t">>
                                                ELSE <<"i", "s", "o">>)]
               /\ Leave("mount_partitions", RunExc(cmds, args.dry_run, out))
  /\ UNCHANGED <<args, disk, already, mode, iso_dir, usb, boot, source, isos,
                 cfg, asked, status, history>>

\* GRUBInstaller.install_grub
install_grub ==
  /\ pc = "install_grub"
  /\ LET cmds == <<Op("grub_install", <<>>)>>
     IN  \E out \in Outcomes(cmds, args.dry_run) :
           /\ executed' = executed
                \o (IF args.dry_run THEN <<>>
                    ELSE <<Op("mkdir", <<"g", "r", "u", "b">>)>>)
                \o RunExecuted(cmds, args.dry_run, out)
           /\ echoed' = echoed
                \o (IF args.dry_run THEN <<Op("print_grub_install", <<>>)>>
                    ELSE RunEchoed(cmds, args.dry_run, out))
           /\ boot' = IF args.dry_run THEN boot
                      ELSE [boot EXCEPT
                              !.grub_dir = TRUE,
                              !.grub_installed =
                                 @ \/ Succeeded(cmds, args.dry_run, out) = 1]
           /\ Leave("install_grub", RunExc(cmds, args.dry_run, out))
  /\ UNCHANGED <<args, disk, already, mode, iso_dir, mounted, usb, source, isos,
                 cfg, asked, status, history>>

\* shutil.copy2 raises for no name
NoFailure == [n \in {} |-> 0]

\* how shutil.copy2 may raise: for no name, or for one source file, before
\* the destination is opened (-1) or after any number of bytes was written
CopyFailures(dry_run) ==
  IF dry_run THEN {NoFailure}
  ELSE {NoFailure} \cup UNION {{(n :> k) : k \in (-1)..source[n].size} :
                           n \in DOMAIN source}

\* what path.rglob("*") can yield in the call that ended the loop as r; it
\* is read when _apply_iso_permissions gets to the files
Listings(iso_perms, r) ==
  IF ~args.dry_run /\ r.raised = <<>> /\ iso_perms = "sudo-user"
  THEN Rglob(r.files) ELSE {<<>>}

\* the exception that leaves sync_isos: from the copy loop, or from _run in
\* _apply_iso_permissions, which is skipped in preview mode
SyncExc(r, perms, out) ==
  IF r.raised # <<>> THEN CopyError("copy")
  ELSE RunExc(perms, args.dry_run, out)

\* what a sync_isos call changed and ran: the folder, the copies, the
\* permission commands
SyncExecuted(r, perms, out) ==
  IF args.dry_run THEN <<>>
  ELSE <<Op("mkdir", <<"i", "s", "o", "s">>)>>
         \o [i \in 1..Len(r.copied) |-> Op("copy", r.copied[i])]
         \o (IF r.raised # <<>> THEN <<>> ELSE RunExecuted(perms, FALSE, out))

\* what a sync_isos call printed: "+ name" in preview mode, the permission
\* commands otherwise
SyncEchoed(r, perms, out) ==
  [i \in 1..Len(r.echo) |-> Op("print_plus", r.echo[i])]
    \o (IF args.dry_run \/ r.raised # <<>> THEN <<>>
        ELSE RunEchoed(perms, FALSE, out))

\* the record of a sync_isos call kept in history
SyncRecord(r, e) ==
  [isos |-> r.isos, copied |-> r.copied, before |-> VisibleIsoFolder,
   after |-> [exists |-> r.exists, files |-> r.files], source |-> source,
   dry_run |-> args.dry_run, given |-> iso_dir, raised |-> r.raised,
   returned |-> e.type = "none"]

\* the effect of one sync_isos call that ends with exception e
SyncEffect(r, perms, out, e) ==
  /\ usb' = IF args.dry_run THEN usb ELSE [exists |-> r.exists, files |-> r.files]
  /\ isos' = IF e.type = "none" THEN r.isos ELSE isos
  /\ executed' = executed \o SyncExecuted(r, perms, out)
  /\ echoed' = echoed \o SyncEchoed(r, perms, out)
  /\ history' = Append(history, SyncRecord(r, e))

\* a call of sync_isos made when main() is at position at
SyncIsos(at) ==
  /\ pc = at
  /\ \E r \in {sync_isos(VisibleIsoFolder, [given |-> iso_dir, files |-> source],
                         args.dry_run, fail_copy) :
                 fail_copy \in CopyFailures(args.dry_run)} :
       \E iso_perms \in (IF args.iso_perms = "unread" THEN IsoPerms
                         ELSE {args.iso_perms}) :
         \E listing \in Listings(iso_perms, r) :
         \E perms \in {PermCmds(iso_perms, listing, r.files)} :
           \E out \in Outcomes(perms, args.dry_run \/ r.raised # <<>>) :
             /\ args' = [args EXCEPT !.iso_perms = iso_perms]
             /\ SyncEffect(r, perms, out, SyncExc(r, perms, out))
             /\ Leave("sync_isos", SyncExc(r, perms, out))
  /\ UNCHANGED <<disk, already, mode, iso_dir, mounted, boot, source, cfg,
                 asked, status>>

\* isos = installer.sync_isos(iso_dir)
sync_isos_step == SyncIsos("sync_isos")

\* GRUBInstaller.ensure_wimboot: what it does in the current state
\* ("exists", "warn", "preview" or "download")
WimbootCase(allow_download) ==
  IF VisibleBoot.wimboot THEN "exists"
  ELSE IF ~allow_download THEN "warn"
  ELSE IF args.dry_run THEN "preview"
  ELSE "download"

WimbootCmds == <<Op("chmod_644", <<"w", "i", "m", "b", "o", "o", "t">>)>>

\* how ensure_wimboot can go: urlretrieve raises before it opened the
\* destination ("failed") or after it wrote a part of it ("partial"), or it
\* succeeds and the chmod that follows succeeds, exits non-zero or is missing
WimbootWays(called, allow_download) ==
  IF called /\ WimbootCase(allow_download) = "download"
  THEN {[dl |-> "failed", out |-> AllOk], [dl |-> "partial", out |-> AllOk]}
         \cup {[dl |-> "ok", out |-> o] : o \in Outcomes(WimbootCmds, FALSE)}
  ELSE {[dl |-> "none", out |-> AllOk]}

\* a variant of WimbootExc in which ensure_wimboot catches nothing
WimbootExcUncaught(w) ==
  IF w.dl = "ok" THEN RunExc(WimbootCmds, FALSE, w.out) ELSE NoExc

\* the exception that leaves ensure_wimboot: "except Exception" catches
\* CalledProcessError and the download error, not SystemExit
WimbootExc(w) ==
  LET e == RunExc(WimbootCmds, FALSE, w.out)
  IN  IF w.dl = "ok" /\ e.type = "SystemExit" THEN e ELSE NoExc

\* a call of generate_grub_config(entries, allow_wimboot_download=...) made
\* when main() is at position at, with --download-wimboot drawn from flags
\* and the keys of entries in any insertion order
Generate(at, entries, flags) ==
  /\ pc = at
  /\ \E called \in {has_windows(entries)}, keys \in Orders(DOMAIN entries) :
     \E text \in {ConfigText(keys)}, download_wimboot \in flags :
       LET allow == download_wimboot = "on"
           what == IF called THEN WimbootCase(allow) ELSE "skip"
       IN  \E w \in WimbootWays(called, allow) :
           /\ args' = [args EXCEPT !.download_wimboot = download_wimboot]
           /\ executed' = executed
                \o (IF what = "download"
                    THEN <<Op("mkdir", <<"g", "r", "u", "b">>),
                           Op("urlretrieve", <<>>)>>
                           \o (IF w.dl = "ok"
                               THEN RunExecuted(WimbootCmds, FALSE, w.out)
                               ELSE <<>>)
                    ELSE <<>>)
           /\ echoed' = echoed
                \o (CASE what = "warn" -> <<Op("warn_wimboot", <<>>)>>
                      [] what = "preview" -> <<Op("print_curl", <<>>)>>
                      [] what = "download" ->
                           (IF w.dl = "ok"
                            THEN RunEchoed(WimbootCmds, FALSE, w.out)
                            ELSE <<Op("warn_wimboot", <<>>)>>)
                              \o (IF w.dl = "ok" /\ w.out.kind = "failed"
                                  THEN <<Op("warn_wimboot", <<>>)>> ELSE <<>>)
                      [] OTHER -> <<>>)
           /\ boot' = IF what = "download"
                      THEN [boot EXCEPT !.grub_dir = TRUE,
                                        !.wimboot = (w.dl \in {"ok", "partial"})]
                      ELSE boot
           /\ cfg' = IF WimbootExc(w).type = "none"
                     THEN text ELSE cfg
           /\ Leave("generate_grub_config", WimbootExc(w))
  /\ UNCHANGED <<disk, already, mode, iso_dir, mounted, usb, source, asked,
                 status, history>>

\* cfg = installer.generate_grub_config(isos, allow_wimboot_download=...)
generate_grub_config ==
  /\ Generate("generate_grub_config", isos, DownloadWimboot)
  /\ UNCHANGED isos

\* GRUBInstaller.write_grub_config
write_grub_config ==
  /\ pc = "write_grub_config"
  /\ LET cmds == <<Op("chmod_644", <<"g", "r", "u", "b", ".", "c", "f", "g">>)>>
     IN  \E out \in Outcomes(cmds, args.dry_run) :
           /\ executed' = executed
                \o (IF args.dry_run THEN <<>>
                    ELSE <<Op("mkdir", <<"g", "r", "u", "b">>),
                           Op("write_text", <<"g", "r", "u", "b", ".", "c", "f", "g">>)>>)
                \o RunExecuted(cmds, args.dry_run, out)
           /\ echoed' = echoed
                \o (IF args.dry_run THEN <<>> ELSE RunEchoed(cmds, args.dry_run, out))
           /\ boot' = IF args.dry_run THEN boot
                      ELSE [boot EXCEPT !.grub_dir = TRUE, !.has_cfg = TRUE,
                                        !.grub_cfg = cfg]
           /\ Leave("write_grub_config", RunExc(cmds, args.dry_run, out))
  /\ UNCHANGED <<args, disk, already, mode, iso_dir, mounted, usb, source, isos,
                 cfg, asked, status, history>>

\* the umount commands of unmount_partitions: the iso mount point first
UnmountCmds(installed) ==
  (IF _is_mounted("iso", installed)
   THEN <<Op("umount", <<"i", "s", "o">>)>> ELSE <<>>)
    \o (IF _is_mounted("boot", installed)
        THEN <<Op("umount", <<"b", "o", "o", "t">>)>> ELSE <<>>)

\* a variant of FinallyExc in which the exception of the try body is kept
FinallyExcKeep(pending, raised) ==
  IF pending.type = "none" THEN raised ELSE pending

\* the exception in flight after the finally clause: one raised in the
\* clause replaces the pending one
FinallyExc(pending, raised) ==
  IF raised.type = "none" THEN pending ELSE raised

\* finally: installer.unmount_partitions()
unmount_partitions ==
  /\ pc = "finally"
  /\ \E installed \in MountpointInstalled :
     LET cmds == UnmountCmds(installed)
     IN  \E out \in Outcomes(cmds, args.dry_run) :
           LET done == Succeeded(cmds, args.dry_run, out)
           IN  /\ executed' = executed \o RunExecuted(cmds, args.dry_run, out)
               /\ echoed' = echoed
                    \o (IF args.dry_run
                        THEN <<Op("print_unmount", <<"b", "o", "o", "t">>),
                               Op("print_unmount", <<"i", "s", "o">>)>>
                        ELSE RunEchoed(cmds, args.dry_run, out))
               /\ mounted' =
                    IF args.dry_run THEN mounted
                    ELSE [m \in {"boot", "iso"} |->
                            /\ mounted[m]
                            /\ ~\E i \in 1..done :
                                  cmds[i].arg = (IF m = "boot"
                                                 THEN <<"b", "o", "o", "t">>
                                                 ELSE <<"i", "s", "o">>)]
               /\ exc' = FinallyExc(exc, RunExc(cmds, args.dry_run, out))
  /\ steps' = Append(steps, "unmount_partitions")
  /\ pc' = "exit"
  /\ UNCHANGED <<args, disk, already, mode, iso_dir, usb, boot, source, isos,
                 cfg, asked, first_exc, status, history>>

\* the end of main(): the closing banner when nothing is in flight, then the
\* interpreter exits with the status of the exception
Finish ==
  /\ pc = "exit"
  /\ status' = ExitStatus(exc)
  /\ pc' = "done"
  /\ UNCHANGED <<args, disk, already, mode, iso_dir, mounted, usb, boot, source,
                 isos, cfg, executed, echoed, steps, asked, exc, first_exc,
                 history>>

(***************************************************************************)
(* Specification of one run of main().                                     *)
(***************************************************************************)
\* the payload folders a provisioned device holds when a run starts
RunFolders ==
  { NoDir, [exists |-> TRUE, files |-> (N1 :> File(1, "A"))],
    [exists |-> TRUE, files |-> (N1 :> File(1, "A")) @@ (NOld :> Dir)] }

\* the source directories of a run
RunSources ==
  { NoFiles, (N1 :> File(1, "B")) @@ (N9 :> File(MaxSize, "A")) }

\* whether a run can come to hold a source directory
MayHaveSource(a) ==
  \/ a.iso_dir = "exists"
  \/ a.iso_dir = "none" /\ ~a.auto_confirm /\ ~a.dry_run

\* the values of the variables no run has touched yet
Untouched ==
  /\ already = FALSE
  /\ mode = "unset"
  /\ iso_dir = FALSE
  /\ isos = NoFiles
  /\ cfg = <<>>
  /\ executed = <<>>
  /\ echoed = <<>>
  /\ steps = <<>>
  /\ asked = <<>>
  /\ exc = NoExc
  /\ first_exc = NoExc
  /\ status = -1
  /\ history = <<>>

Init ==
  /\ args \in Args
  /\ pc = "start"
  /\ disk \in {"absent", "blank", "formatted"}
  /\ usb \in (IF disk = "formatted" THEN RunFolders ELSE {NoDir})
  /\ boot \in (IF disk = "formatted" /\ usb.exists
               THEN {EmptyBoot, [EmptyBoot EXCEPT !.grub_dir = TRUE, !.wimboot = TRUE]}
               ELSE {EmptyBoot})
  /\ mounted \in (IF disk = "formatted"
                  THEN {NoneMounted, [boot |-> TRUE, iso |-> TRUE]}
                  ELSE {NoneMounted})
  /\ source \in (IF MayHaveSource(args) THEN RunSources ELSE {NoFiles})
  /\ Untouched

Next ==
  \/ CheckRoot
  \/ CheckIsoDir
  \/ SelectDevice
  \/ ProbeLayout
  \/ ResolveMode
  \/ IsoDirPrompt
  \/ Banner
  \/ confirm_wipe
  \/ wipe_device
  \/ create_partitions
  \/ format_partitions
  \/ mount_partitions
  \/ install_grub
  \/ sync_isos_step
  \/ generate_grub_config
  \/ write_grub_config
  \/ unmount_partitions
  \/ Finish

Spec == Init /\ [][Next]_vars

(***************************************************************************)
(* Specification of generate_grub_config applied to an entry set.          *)
(***************************************************************************)
\* the dicts of at most MaxEntries payload entries given to the first call,
\* every entry of one byte
MenuInputs ==
  { [n \in S |-> SizeGB(1)] :
      S \in {T \in SUBSET MenuNames : Cardinality(T) <= MaxEntries} }

\* main() about to call generate_grub_config on a mounted device
InitMenu ==
  /\ isos \in MenuInputs
  /\ args \in {a \in Args : a.mode = "update" /\ a.device = "given"
                             /\ a.iso_dir = "none" /\ a.auto_confirm}
  /\ pc = "generate_grub_config"
  /\ disk = "formatted"
  /\ already = TRUE
  /\ mode = "update"
  /\ iso_dir = FALSE
  /\ mounted = [boot |-> TRUE, iso |-> TRUE]
  /\ usb = NoDir
  /\ boot = [EmptyBoot EXCEPT !.grub_dir = TRUE]
  /\ source = NoFiles
  /\ cfg = <<>>
  /\ executed = <<>>
  /\ echoed = <<>>
  /\ steps = <<>>
  /\ asked = <<>>
  /\ exc = NoExc
  /\ first_exc = NoExc
  /\ status = -1
  /\ history = <<>>

\* the dicts that have the names of d, the entries of a dict having one size
SameNames(d) == {[n \in DOMAIN d |-> SizeGB(k)] : k \in 1..MaxSize}

\* a second call of generate_grub_config after one that returned, given a
\* dict of the same names (of any size, in any insertion order) and any
\* value of allow_wimboot_download
generate_grub_config_again ==
  /\ steps = <<"generate_grub_config">>
  /\ \E entries \in SameNames(isos) :
       /\ Generate("write_grub_config", entries, DownloadWimboot)
       /\ isos' = entries

NextMenu ==
  \/ generate_grub_config
  \/ generate_grub_config_again

SpecMenu == InitMenu /\ [][NextMenu]_vars

(***************************************************************************)
(* Specification of sync_isos called up to MaxRuns times on one device.    *)
(***************************************************************************)
\* the files a directory can hold under the names of S
FilesOver(S) ==
  UNION { [T -> {File(k, d) : k \in 1..MaxSize, d \in Contents}] : T \in SUBSET S }

\* the payload folders of the device: absent, or with a file of the source's
\* name and a file or a subdirectory the source does not have
SyncFolders ==
  {NoDir} \cup {[exists |-> TRUE, files |-> f @@ g] :
                  f \in FilesOver({N6}),
                  g \in {NoFiles, (N9 :> File(1, "A")), (NOld :> Dir)}}

\* the source directories: payload files and a file that is not a payload
SyncSources ==
  {f @@ g : f \in FilesOver({N6, N7}), g \in {NoFiles, (NTxt :> File(1, "A"))}}

\* main() about to call sync_isos on a mounted device
InitSync ==
  /\ args \in {a \in Args : a.mode = "update" /\ a.device = "given"
                             /\ a.iso_dir \in {"exists", "none"}
                             /\ a.auto_confirm}
  /\ pc = "sync_isos"
  /\ disk = "formatted"
  /\ already = TRUE
  /\ mode = "update"
  /\ iso_dir = (args.iso_dir = "exists")
  /\ mounted = [boot |-> TRUE, iso |-> TRUE]
  /\ usb \in SyncFolders
  /\ boot = [EmptyBoot EXCEPT !.grub_dir = TRUE]
  /\ source \in (IF iso_dir THEN SyncSources ELSE {NoFiles})
  /\ isos = NoFiles
  /\ cfg = <<>>
  /\ executed = <<>>
  /\ echoed = <<>>
  /\ steps = <<>>
  /\ asked = <<>>
  /\ exc = NoExc
  /\ first_exc = NoExc
  /\ status = -1
  /\ history = <<>>

\* a further call of sync_isos after one that returned
sync_isos_again ==
  /\ Len(history) < MaxRuns
  /\ SyncIsos("generate_grub_config")

NextSync ==
  \/ sync_isos_step
  \/ sync_isos_again

SpecSync == InitSync /\ [][NextSync]_vars

(***************************************************************************)
(* Properties of a run of main().                                          *)
(***************************************************************************)
\* wipefs, parted mklabel/mkpart/set, mkfs
DestructiveOps ==
  {"wipefs", "parted_mklabel", "parted_mkpart", "parted_set_boot",
   "mkfs_boot", "mkfs_iso"}

\* a command of the set ops was run
Executes(ops) == \E i \in 1..Len(executed) : executed[i].op \in ops

\* main() called operation step
Called(step) == \E i \in 1..Len(steps) : steps[i] = step

\* the human was asked question q
Asked(q) == \E i \in 1..Len(asked) : asked[i].q = q

\* the human answered "yes" (any case, surrounding blanks) to the wipe
\* confirmation
ConfirmedWipe ==
  \E i \in 1..Len(asked) : asked[i].q = "wipe" /\ Lower(Strip(asked[i].a)) = Yes

\* the human answered the wipe confirmation with something else
DeclinedWipe ==
  \E i \in 1..Len(asked) : asked[i].q = "wipe" /\ Lower(Strip(asked[i].a)) # Yes

\* C1 as stated: in a run with --auto-confirm no destructive command
\* (wipefs, parted, mkfs) is ever executed, whatever the mode preference and
\* the layout of the device.
C1_AutomationNeverDestroys ==
  args.auto_confirm => ~Executes(DestructiveOps)

\* C1, amended: in a run with --auto-confirm the human is never asked to
\* confirm a wipe, and no destructive command is executed when the preference
\* is update or when it is auto and the device is provisioned; a preference
\* of wipe, or auto on a fresh device, resolves to Wipe and is carried out
\* without confirmation.
C1_AutomationUpdatesProvisioned ==
  args.auto_confirm =>
    /\ ~Asked("wipe")
    /\ (args.mode = "update" \/ (args.mode = "auto" /\ already))
         => ~Executes(DestructiveOps) /\ ~Called("wipe_device")
    /\ (mode # "unset" /\ (args.mode = "wipe" \/ (args.mode = "auto" /\ ~already)))
         => mode = "wipe" /\ (pc = "banner" => FirstStep = "wipe_device")

\* an automated run with preference auto on a provisioned device that
\* re-synchronized it and ended with status 0
C1_Witness ==
  /\ pc = "done" /\ status = 0
  /\ args.auto_confirm /\ args.mode = "auto" /\ already /\ ~args.dry_run
  /\ Called("sync_isos") /\ Called("install_grub")

\* the mode the table of C2 gives for the command line, the probe result and
\* the answer typed at the mode prompt
TableMode ==
  IF args.mode = "wipe" THEN "wipe"
  ELSE IF args.mode = "update" THEN "update"
  ELSE IF ~already THEN "wipe"
  ELSE IF args.auto_confirm THEN "update"
  ELSE IF \E i \in 1..Len(asked) :
            asked[i].q = "mode" /\ Lower(Strip(asked[i].a)) = <<"w">>
       THEN "wipe" ELSE "update"

\* C2: once resolved, the mode is the one the table gives (explicit wipe or
\* update unchanged; auto on a fresh device Wipe; auto on a provisioned device
\* Update under automation and the human's choice otherwise, asked only in
\* that case), and it never changes afterwards.
C2_ModeTable ==
  /\ [](mode # "unset" =>
          /\ mode = TableMode
          /\ Asked("mode") <=> (args.mode = "auto" /\ already /\ ~args.auto_confirm))
  /\ [][mode # "unset" => mode' = mode]_vars

\* a finished run in which the human chose to wipe a provisioned device
C2_Witness ==
  /\ pc = "done"
  /\ args.mode = "auto" /\ already /\ ~args.auto_confirm
  /\ mode = "wipe"
  /\ \E i \in 1..Len(asked) : asked[i].q = "mode" /\ asked[i].a = <<" ", "W">>
  /\ Called("wipe_device")

\* the operations that must not run once the wipe is declined
GuardedSteps ==
  {"wipe_device", "create_partitions", "format_partitions", "mount_partitions",
   "install_grub", "sync_isos", "generate_grub_config", "write_grub_config"}

\* C3: a destructive command (unmount-all, wipefs, parted, mkfs) is executed
\* only in Wipe mode; without --auto-confirm only after the human answered
\* yes to the wipe confirmation; after any other answer no wipe, partition,
\* format, mount, sync or menu-write step runs and the run is ending.
C3_DestructiveOnlyConfirmedWipe ==
  /\ Executes(DestructiveOps \cup {"umount_all"}) => mode = "wipe"
  /\ \A st \in {"wipe_device", "create_partitions", "format_partitions"} :
       Called(st) => mode = "wipe"
  /\ (~args.auto_confirm /\ Called("wipe_device")) => ConfirmedWipe
  /\ (~args.auto_confirm /\ Executes(DestructiveOps \cup {"umount_all"}))
       => ConfirmedWipe
  /\ DeclinedWipe =>
       /\ \A st \in GuardedSteps : ~Called(st)
       /\ executed = <<>> \/ \A i \in 1..Len(executed) : executed[i].op = "umount"
       /\ pc \in {"finally", "exit", "done"}

\* a finished run in which the human typed "y" at the wipe confirmation of
\* a provisioned device, which was left as it was
C3_Witness ==
  /\ pc = "done" /\ ~args.dry_run /\ ~args.auto_confirm
  /\ mode = "wipe" /\ disk = "formatted"
  /\ \E i \in 1..Len(asked) : asked[i].q = "wipe" /\ asked[i].a = <<"y">>
  /\ steps = <<"confirm_wipe", "unmount_partitions">>

\* the last operation main() called
LastStep == IF steps = <<>> THEN "" ELSE steps[Len(steps)]

\* C13 as stated: generate_grub_config never ends the run, whatever
\* ensure_wimboot meets.
C13_WimbootNeverAborts ==
  LastStep = "generate_grub_config" => exc = NoExc

\* C13, the part that holds: in generate_grub_config, nothing is fetched when wimboot
\* exists; when it is missing and the download is disallowed, fails (with or
\* without a partial file left on the boot partition), or is
\* followed by a chmod that exits non-zero, the call returns with a warning,
\* the text has one block per entry and main() goes on to write it. The one
\* exception: when the chmod program is missing after a download, _run ends
\* the process with status 1 and no text is returned.
C13_WimbootSoftFailure ==
  [][pc = "generate_grub_config" =>
       /\ (VisibleBoot.wimboot \/ ~has_windows(isos))
            => executed' = executed /\ echoed' = echoed /\ exc' = NoExc
       /\ exc' \in {NoExc, SystemExit(1, "chmod_644")}
       /\ exc' = NoExc =>
            /\ pc' = "write_grub_config"
            /\ Len(cfg') = Cardinality(DOMAIN isos) + 2
            /\ \A n \in DOMAIN isos :
                 \E i \in 1..Len(cfg') : cfg'[i] = IsoBlock(n)
            /\ (has_windows(isos) /\ ~VisibleBoot.wimboot /\ ~args.dry_run
                  /\ (\/ args'.download_wimboot = "off"
                      \/ executed'[Len(executed')].op = "urlretrieve"
                      \/ executed'[Len(executed')].op = "chmod_644"
                           /\ echoed'[Len(echoed')].op = "warn_wimboot"))
                 => echoed'[Len(echoed')].op = "warn_wimboot"
       /\ exc' # NoExc =>
            /\ has_windows(isos) /\ ~VisibleBoot.wimboot /\ ~args.dry_run
            /\ args'.download_wimboot = "on"
            /\ executed' = executed \o <<Op("mkdir", <<"g", "r", "u", "b">>),
                                         Op("urlretrieve", <<>>)>>
            /\ pc' = "finally" /\ cfg' = cfg]_vars

\* a run with a Windows payload in which wimboot was downloaded, the chmod
\* that follows exited non-zero, and the menu was generated and written
C13_Witness ==
  /\ Called("write_grub_config") /\ boot.has_cfg
  /\ \E i \in 1..(Len(executed) - 1) :
       /\ executed[i].op = "urlretrieve"
       /\ executed[i + 1] = Op("chmod_644", <<"w", "i", "m", "b", "o", "o", "t">>)
       /\ \E j \in 1..Len(echoed) : echoed[j].op = "warn_wimboot"
  /\ \E i \in 1..Len(cfg) : cfg[i] = IsoBlock(N1)

\* the position in the preview trace of the first line for operation op,
\* 0 when there is none
EchoAt(op, arg) ==
  IF \E i \in 1..Len(echoed) : echoed[i] = Op(op, arg)
  THEN CHOOSE i \in 1..Len(echoed) :
         echoed[i] = Op(op, arg) /\ \A j \in 1..(i - 1) : echoed[j] # Op(op, arg)
  ELSE 0

\* C14, the part that holds: in preview mode no command is executed, no
\* file or directory is made, and the device, its mounts, the payload folder
\* and the boot partition stay as they are.
C14_PreviewChangesNothing ==
  /\ [](args.dry_run => executed = <<>>)
  /\ [][args.dry_run => UNCHANGED <<disk, mounted, usb, boot>>]_vars

\* C14: in preview mode nothing is executed, and every action of the real
\* run is echoed in the order of the real run: a preview that got through
\* sync_isos shows the permission commands of the payload folder, and the
\* cleanup shows the iso mount point before the boot mount point.
C14_PreviewEchoesRealRun ==
  args.dry_run =>
    /\ executed = <<>>
    /\ (Called("generate_grub_config") /\ args.iso_perms = "world-writable")
         => EchoAt("chmod_R_a+rwX", <<>>) > 0
    /\ (Called("generate_grub_config") /\ args.iso_perms = "sudo-user")
         => EchoAt("chown_R", <<>>) > 0
    /\ Called("unmount_partitions")
         => /\ EchoAt("print_unmount", <<"i", "s", "o">>) > 0
            /\ EchoAt("print_unmount", <<"i", "s", "o">>)
                 < EchoAt("print_unmount", <<"b", "o", "o", "t">>)

\* the position of operation step in steps, 0 when it was not called
Pos(step) ==
  IF Called(step) THEN CHOOSE i \in 1..Len(steps) : steps[i] = step ELSE 0

\* the operations of the two branches of the try statement, in the order
\* C15 gives, without the wipe confirmation
WipeOrder ==
  <<"wipe_device", "create_partitions", "format_partitions",
    "mount_partitions", "install_grub", "sync_isos", "generate_grub_config",
    "write_grub_config">>

UpdateOrder ==
  <<"mount_partitions", "sync_isos", "generate_grub_config",
    "write_grub_config", "install_grub">>

ModeOrder == IF mode = "wipe" THEN WipeOrder ELSE UpdateOrder

\* the operations of the try body called so far: steps without the wipe
\* confirmation and without the cleanup
BodySteps ==
  SelectSeq(steps, LAMBDA x : x \notin {"confirm_wipe", "unmount_partitions"})

\* operation step was called and returned: another operation of the try
\* body followed it, or the body ended without an exception
Returned(step) ==
  /\ Called(step)
  /\ \/ Pos(step) < Len(steps) /\ steps[Pos(step) + 1] # "unmount_partitions"
     \/ pc \in {"finally", "exit", "done"} /\ first_exc = NoExc
     \/ pc \notin {"finally", "exit", "done"} /\ Pos(step) = Len(steps)

\* C15 as stated, its last part: in a finished run in which the mount step
\* returned, synchronization and menu generation have run.
C15_SyncAndMenuAlwaysRun ==
  (pc = "done" /\ Returned("mount_partitions"))
    => Called("sync_isos") /\ Called("generate_grub_config")

\* C15, amended: the operations called are an initial part of the order of
\* the mode (formatting before mounting in Wipe mode, mounting before
\* synchronization, synchronization before menu generation, the menu written
\* before the cleanup unmount, which comes last); a real run synchronizes
\* with both partitions mounted; the menu is generated from the dict the
\* last synchronization returned; and a run whose try body raises nothing
\* has called every operation of its mode. A failing operation skips the
\* ones after it, synchronization and menu generation included.
C15_StepOrder ==
  /\ Len(BodySteps) <= Len(ModeOrder)
  /\ BodySteps = SubSeq(ModeOrder, 1, Len(BodySteps))
  /\ Called("unmount_partitions") => LastStep = "unmount_partitions"
  /\ (pc = "sync_isos" /\ ~args.dry_run) => mounted.boot /\ mounted.iso
  /\ pc = "generate_grub_config" =>
       /\ history # <<>>
       /\ history[Len(history)].returned
       /\ isos = history[Len(history)].isos
  /\ Returned("generate_grub_config") =>
       /\ isos = history[Len(history)].isos
       /\ Len(cfg) = Cardinality(DOMAIN isos) + 2
       /\ \A n \in DOMAIN isos : \E i \in 1..Len(cfg) : cfg[i] = IsoBlock(n)
  /\ (pc \in {"exit", "done"} /\ steps # <<>> /\ first_exc = NoExc)
       => BodySteps = ModeOrder /\ Called("unmount_partitions")
  /\ (pc = "done" /\ Returned("sync_isos")) => Called("generate_grub_config")
  /\ (pc = "done" /\ mode = "update" /\ Returned("mount_partitions"))
       => Called("sync_isos")

\* a finished wipe run, confirmed by the human, that called every operation
C15_Witness ==
  /\ pc = "done" /\ status = 0 /\ ~args.dry_run /\ mode = "wipe"
  /\ steps = <<"confirm_wipe">> \o WipeOrder \o <<"unmount_partitions">>
  /\ DOMAIN isos = {N1, N9}
  /\ boot.has_cfg /\ boot.grub_cfg = cfg

\* wipe, partition, format, mount, directory creation, copy and write
MutatingOps ==
  DestructiveOps \cup {"umount_all", "mount", "mkdir", "copy", "write_text",
                       "urlretrieve", "grub_install"}

\* C16, the part that holds: a run given a source directory that does not
\* exist ends with status 1 before the try statement, having executed
\* nothing.
C16_MissingSourceAbortsEarly ==
  args.iso_dir = "missing" =>
    /\ executed = <<>> /\ steps = <<>>
    /\ pc \in {"start", "iso_dir", "done"}
    /\ pc = "done" => status = 1

\* C16: when the selected device does not exist, or the source directory
\* given does not exist, no wipe, partition, format, mount, directory
\* creation, copy or write is executed, whatever the mode and the flags.
C16_PreconditionAbortsEarly ==
  (disk = "absent" \/ args.iso_dir = "missing") =>
    \A i \in 1..Len(executed) : executed[i].op \notin MutatingOps

\* C4: a run in which the human declined the wipe confirmation ends with a
\* non-zero exit status.
C4_DeclineExitsNonZero ==
  (pc = "done" /\ DeclinedWipe) => status # 0

\* the mount point of a partition, as the argument of mount and umount
MountArg(m) == IF m = "boot" THEN <<"b", "o", "o", "t">> ELSE <<"i", "s", "o">>

\* C5: when a run that entered the orchestrated steps has ended, an unmount
\* was attempted for every mount point that is still mounted.
C5_UnmountAllAttempted ==
  (pc = "done" /\ steps # <<>> /\ ~args.dry_run) =>
    /\ Called("unmount_partitions")
    /\ \A m \in {"boot", "iso"} :
         mounted[m] => \E i \in 1..Len(echoed) : echoed[i] = Op("umount", MountArg(m))

\* C6: when a run has ended, it reports the outcome of its orchestrated
\* steps: the error that left them, or success; a failure of an unmount
\* command in the cleanup never replaces it.
C6_UnmountFailureSwallowed ==
  (pc = "done" /\ steps # <<>>) => exc = first_exc

\* C11: a second call of generate_grub_config on a dict of the same names
\* returns the text the first call returned, whatever the insertion order
\* and the sizes of the entries, whether or not wimboot is on the boot
\* partition, and whether or not its download is allowed.
C11_GenerationDeterministic ==
  [][(pc = "write_grub_config" /\ pc' = "write_grub_config"
        /\ DOMAIN isos' = DOMAIN isos)
       => cfg' = cfg]_vars

\* two calls returned for the names "Win10_x64.iso" and "memtest.iso": one
\* warned about the missing wimboot, the other downloaded it
C11_Witness ==
  /\ steps = <<"generate_grub_config", "generate_grub_config">>
  /\ pc = "write_grub_config"
  /\ DOMAIN isos = {N1, N9}
  /\ Len(cfg) = 4
  /\ \E i \in 1..Len(echoed) : echoed[i].op = "warn_wimboot"
  /\ \E i \in 1..Len(executed) : executed[i].op = "urlretrieve"
  /\ boot.wimboot

\* ensure_wimboot has visibly acted: it warned, previewed the download or
\* started it
WimbootActed ==
  \/ \E i \in 1..Len(echoed) : echoed[i].op \in {"warn_wimboot", "print_curl"}
  \/ \E i \in 1..Len(executed) : executed[i].op = "urlretrieve"

\* C12: generate_grub_config calls ensure_wimboot exactly when an entry is
\* classified into the Windows/PE family: the trigger (has_windows) and the
\* Windows/PE rule agree on the entry set, and ensure_wimboot has acted only
\* for a set with a Windows/PE entry.
C12_TriggerAgreesWithRule ==
  steps # <<>> =>
    /\ has_windows(isos) <=> \E n \in DOMAIN isos : IsWindows(Lower(n))
    /\ WimbootActed => \E n \in DOMAIN isos : IsoBlock(n).body.template = "windows"

(***************************************************************************)
(* Properties of sync_isos.                                                *)
(***************************************************************************)
\* the names of the source directory that glob("*.iso") yields
PayloadNames(src) == {n \in DOMAIN src : EndsWith(n, <<".", "i", "s", "o">>)}

\* name was copied by the call recorded in h
CopiedIn(h, name) == \E i \in 1..Len(h.copied) : h.copied[i] = name

\* the destination of name was missing or of another size before the call
\* recorded in h
MissingOrResized(h, name) ==
  \/ name \notin DOMAIN h.before.files
  \/ h.before.files[name].size # h.source[name].size

\* C7: in a non-preview call of sync_isos with a source directory, a source
\* payload is copied (the destination becoming the source file) if and only
\* if the destination was missing or of another size; a destination of equal
\* size is left as it was, whatever its content, and files without a source
\* of their name are left as they were.
C7_CopyIffMissingOrResized ==
  \A k \in 1..Len(history) :
    LET h == history[k]
    IN  (~h.dry_run /\ h.given) =>
          /\ \A n \in PayloadNames(h.source) :
               /\ CopiedIn(h, n) => MissingOrResized(h, n) /\ h.after.files[n] = h.source[n]
               /\ (h.raised = <<>> /\ MissingOrResized(h, n)) => CopiedIn(h, n)
               /\ (~MissingOrResized(h, n)) =>
                    ~CopiedIn(h, n) /\ h.after.files[n] = h.before.files[n]
          /\ \A n \in DOMAIN h.before.files \ PayloadNames(h.source) :
               n \in DOMAIN h.after.files /\ h.after.files[n] = h.before.files[n]
          /\ \A i \in 1..Len(h.copied) : h.copied[i] \in PayloadNames(h.source)

\* a call that copied one payload and kept a destination of the same size
\* as its source and of another content
C7_Witness ==
  \E k \in 1..Len(history) :
    LET h == history[k]
    IN  /\ ~h.dry_run /\ h.given /\ h.returned
        /\ N6 \in DOMAIN h.source /\ N6 \in DOMAIN h.before.files
        /\ h.before.files[N6].size = h.source[N6].size
        /\ h.before.files[N6].data # h.source[N6].data
        /\ h.after.files[N6] = h.before.files[N6]
        /\ h.copied = <<N7>>

\* C8: a call of sync_isos that follows one that returned, on the same
\* device and with the same source directory, copies nothing, and when it
\* returns it returns the same dict of names and sizes.
C8_SecondSyncCopiesNothing ==
  \A k \in 1..(Len(history) - 1) :
    history[k].returned =>
      /\ history[k + 1].copied = <<>>
      /\ history[k + 1].raised = <<>>
      /\ history[k + 1].after.files = history[k].after.files
      /\ history[k + 1].returned => history[k + 1].isos = history[k].isos

\* two calls in a row, the first of which copied two payloads
C8_Witness ==
  /\ Len(history) >= 2
  /\ ~history[1].dry_run
  /\ history[1].copied = <<N7, N6>>
  /\ history[2].returned /\ history[2].copied = <<>>
  /\ history[2].isos = history[1].isos
  /\ DOMAIN history[2].isos = {N6, N7, N9}

\* C17: the dict a non-preview call of sync_isos returns is the content of
\* the payload folder after the call: its names are the payload names that
\* were in the folder before together with the source payload names, no
\* file that was in the folder is gone, and each size is the size of the
\* file now in the folder.
C17_ReturnedSetIsStore ==
  \A k \in 1..Len(history) :
    LET h == history[k]
    IN  (~h.dry_run /\ h.returned) =>
          /\ DOMAIN h.isos =
               PayloadNames(h.before.files)
                 \cup (IF h.given THEN PayloadNames(h.source) ELSE {})
          /\ DOMAIN h.isos = PayloadNames(h.after.files)
          /\ h.after.exists
          /\ DOMAIN h.before.files \subseteq DOMAIN h.after.files
          /\ \A n \in DOMAIN h.isos : h.isos[n] = SizeGB(h.after.files[n].size)
          /\ k > 1 => h.before = history[k - 1].after

\* two calls in a row on a folder that held "memtest.iso", which the source
\* does not have, and an "ubuntu-24.04.iso" of another size than the source
C17_Witness ==
  /\ Len(history) >= 2
  /\ ~history[2].dry_run /\ history[2].returned /\ history[2].given
  /\ DOMAIN history[1].before.files = {N6, N9}
  /\ {N6, N7} \subseteq DOMAIN source
  /\ history[1].before.files[N6].size # source[N6].size
  /\ DOMAIN history[2].isos = {N6, N7, N9}
  /\ history[2].isos[N6] = SizeGB(source[N6].size)
  /\ history[2].isos[N9] = SizeGB(usb.files[N9].size)

(***************************************************************************)
(* Properties of generate_grub_config.                                     *)
(***************************************************************************)
\* the rule order of the classification: whether rule k matches
RuleMatches(k, low) ==
  CASE k = 1 -> IsWindows(low)
    [] k = 2 -> IsNixos(low)
    [] k = 3 -> IsDebianNetinst(low)
    [] k = 4 -> IsTails(low)
    [] k = 5 -> IsSystemRescue(low)
    [] k = 6 -> IsDebianLive(low)
    [] k = 7 -> IsArch(low)
    [] k = 8 -> IsFedora(low)
    [] k = 9 -> TRUE

RuleTemplate ==
  <<"windows", "nixos", "debian_netinst", "tails", "systemrescue",
    "debian_live", "arch", "fedora", "generic">>

\* the lowest-numbered rule that matches
FirstMatch(low) ==
  CHOOSE k \in 1..9 : RuleMatches(k, low) /\ \A j \in 1..(k - 1) : ~RuleMatches(j, low)

\* the blocks of the document emitted for payload iso_name
BlocksOf(iso_name) ==
  {i \in 1..Len(cfg) : cfg[i].kind = "menuentry"
                         /\ cfg[i].body.isofile = IsoFile(iso_name)}

\* C9: in a generated document, the block of every payload uses the template
\* of the lowest-numbered rule (Windows/PE, NixOS, Debian netinst, Tails,
\* SystemRescue, Debian-live, Arch, Fedora/RHEL, generic) that its lower-cased
\* name matches; the generic template only when no specific rule matches.
C9_FirstMatchWins ==
  cfg # <<>> =>
    \A n \in DOMAIN isos :
      /\ BlocksOf(n) # {}
      /\ \A i \in BlocksOf(n) :
           /\ cfg[i].body.template = RuleTemplate[FirstMatch(Lower(n))]
           /\ cfg[i].body.template = "generic"
                <=> \A k \in 1..8 : ~RuleMatches(k, Lower(n))

\* a document for a name that matches the NixOS rule and the Debian netinst
\* rule, and for a name no rule matches
C9_Witness ==
  /\ cfg # <<>>
  /\ DOMAIN isos = {N12, N9}
  /\ RuleMatches(2, Lower(N12)) /\ RuleMatches(3, Lower(N12))
  /\ \E i \in BlocksOf(N12) : cfg[i].body.template = "nixos"
  /\ \E i \in BlocksOf(N9) : cfg[i].body.template = "generic"

\* the file name a block was emitted for
NameOf(block) == SubSeq(block.body.isofile, 7, Len(block.body.isofile))

\* C10: a generated document is the preamble, then exactly one block per
\* payload entry in ascending order of file name, then the utilities block;
\* for the empty entry set it is the preamble and the utilities block.
C10_DocumentShape ==
  cfg # <<>> =>
    /\ Len(cfg) = Cardinality(DOMAIN isos) + 2
    /\ cfg[1] = Preamble
    /\ cfg[Len(cfg)] = Utilities
    /\ \A i \in 2..(Len(cfg) - 1) :
         cfg[i].kind = "menuentry" /\ NameOf(cfg[i]) \in DOMAIN isos
    /\ \A n \in DOMAIN isos : Cardinality(BlocksOf(n)) = 1
    /\ \A i, j \in 2..(Len(cfg) - 1) :
         (i < j) => StrLess(NameOf(cfg[i]), NameOf(cfg[j]))

\* a document of two entries, the name with the upper-case initial first
C10_Witness ==
  /\ Len(cfg) = 4
  /\ DOMAIN isos = {N7, N8}
  /\ NameOf(cfg[2]) = N8 /\ NameOf(cfg[3]) = N7
  /\ cfg[1] = Preamble /\ cfg[4] = Utilities

====
